---- MODULE Spec2Model ----
(***************************************************************************)
(* Model of the Celery-based ETL pipeline of vlm-eden-dataset-etl:         *)
(*   etl/transform/data_processor.py  DataProcessor (fold and emit)        *)
(*   etl/batching/batch_creator.py    BatchCreator (split)                 *)
(*   etl/extract/query_executor.py    QueryExecutor (count, fetch_page)    *)
(*   etl/tasks/batch_tasks.py         process_batch_task,                  *)
(*                                    process_page_batch_task              *)
(*   etl/pipeline/etl_pipeline.py     ETLPipeline (load, run, save)        *)
(***************************************************************************)
EXTENDS Integers, Sequences, FiniteSets, TLC

(***************************************************************************)
(* Bounds of the model.                                                    *)
(***************************************************************************)
\* rows of the source
MaxRows == 5
\* rows of a batch handed to process_batch in FoldSpec
MaxBatchLen == 3
\* runs of the pipeline on one output directory
MaxRuns == 3
\* injected failures: a page task that raises, a batch that raises, a failed count
\* query or cursor, a failed dispatch, a failed CSV or checkpoint write, a failed
\* upload, a timeout of the wait, a killed process
MaxFaults == 2

\* items of a list handed to create_batches in BatchSpec
MaxListLen == 5
\* batch sizes a BatchCreator is constructed with in BatchSpec
MaxBatchSize == 3

\* rows of the source in FairSpec
FairRows == 3

\* page_size and batch_size the pipeline is constructed with
PageSize == 2
BatchSize == 1

\* max_retries of process_page_batch_task
MaxRetries == 2

\* Python's None for a field_created_at; real timestamps are 1, 2, ...
NoneTime == 0
\* Python's None for a string-valued column
NoneStr == "None"

Values == {"a", "b"}
Studies == {1, 2}
FileCounts == {0, 1, 2}
FieldCounts == {1, 2}
OutputDir == "out"

(***************************************************************************)
(* Generic helpers.                                                        *)
(***************************************************************************)
Range(s) == {s[i] : i \in 1..Len(s)}

Min(a, b) == IF a < b THEN a ELSE b

RECURSIVE Concat(_)
Concat(ss) == IF ss = <<>> THEN <<>> ELSE Head(ss) \o Concat(Tail(ss))

(***************************************************************************)
(* Source rows (one joined record of get_all_studies_data).                *)
(***************************************************************************)
SeriesOf(study) == 10 + study
InstanceOf(study, f) == study * 100 + f
PathOf(inst) == "f" \o ToString(inst) \o ".dcm"
UrlOf(path) == "https://files/" \o path

MkRow(study, f, value, created) ==
    [study_id |-> study,
     series_id |-> SeriesOf(study),
     instance_id |-> InstanceOf(study, f),
     file_path |-> PathOf(InstanceOf(study, f)),
     file_url |-> UrlOf(PathOf(InstanceOf(study, f))),
     field_value |-> value,
     field_created_at |-> created,
     series_number |-> 1,
     instance_number |-> f]

\* file_key = (study_id, series_id, instance_id, file_path)
FileKey(row) == <<row.study_id, row.series_id, row.instance_id, row.file_path>>

\* str(file_key): Python's str of a tuple of three ints and a str
KeyStr(k) == "(" \o ToString(k[1]) \o ", " \o ToString(k[2]) \o ", "
                 \o ToString(k[3]) \o ", '" \o k[4] \o "')"

\* Python truthiness of field_value / file_url (None and '' are falsy)
Truthy(v) == v # NoneStr /\ v # ""

(***************************************************************************)
(* DataProcessor.process_batch                                             *)
(***************************************************************************)
EmptyFold == [file_data |-> <<>>, report |-> <<>>, keys |-> <<>>]

HasKey(file_data, k) == \E i \in 1..Len(file_data) : file_data[i].key = k
IndexOfKey(file_data, k) == CHOOSE i \in 1..Len(file_data) : file_data[i].key = k

NewFileInfo(row) ==
    [key |-> FileKey(row),
     study_id |-> row.study_id,
     series_id |-> row.series_id,
     instance_id |-> row.instance_id,
     series_number |-> row.series_number,
     instance_number |-> row.instance_number,
     file_path |-> row.file_path,
     file_url |-> row.file_url,
     field_created_at |-> row.field_created_at]

\* report_fields_by_study is kept as a sequence of [study, fields] entries
HasStudy(report, s) == \E i \in 1..Len(report) : report[i].study = s
IndexOfStudy(report, s) == CHOOSE i \in 1..Len(report) : report[i].study = s
\* the lookup of line 112 taking the first study's aggregate whatever the study
ReportOfFirst(report, s) == IF report = <<>> THEN <<>> ELSE report[1].fields

ReportOf(report, s) == IF HasStudy(report, s) THEN report[IndexOfStudy(report, s)].fields
                       ELSE <<>>

\* the skip test of line 41 looking up the file path instead of str(file_key)
SkipRowByPath(row, processed_file_keys) == row.file_path \in processed_file_keys

\* line 41: if file_key_str in processed_file_keys: continue
SkipRow(row, processed_file_keys) == KeyStr(FileKey(row)) \in processed_file_keys

\* one iteration of the loop of lines 27-72
FoldRow(st, row, processed_file_keys) ==
    IF SkipRow(row, processed_file_keys) THEN st
    ELSE
      LET k == FileKey(row)
          fd1 == IF HasKey(st.file_data, k) THEN st.file_data
                 ELSE Append(st.file_data, NewFileInfo(row))
          rp1 == IF HasStudy(st.report, row.study_id) THEN st.report
                 ELSE Append(st.report, [study |-> row.study_id, fields |-> <<>>])
          si == IndexOfStudy(rp1, row.study_id)
          existing == {rp1[si].fields[j].value : j \in 1..Len(rp1[si].fields)}
          isNew == Truthy(row.field_value) /\ row.field_value \notin existing
          rp2 == IF isNew
                 THEN [rp1 EXCEPT ![si].fields =
                          Append(@, [value |-> row.field_value,
                                     created_at |-> row.field_created_at])]
                 ELSE rp1
          fi == IndexOfKey(fd1, k)
          newer == /\ isNew
                   /\ row.field_created_at # NoneTime
                   /\ \/ fd1[fi].field_created_at = NoneTime
                      \/ row.field_created_at > fd1[fi].field_created_at
          fd2 == IF newer
                 THEN [fd1 EXCEPT ![fi].field_created_at = row.field_created_at]
                 ELSE fd1
      IN [file_data |-> fd2, report |-> rp2,
          keys |-> Append(st.keys, KeyStr(k))]

RECURSIVE FoldRows(_, _, _)
FoldRows(st, batch, processed_file_keys) ==
    IF batch = <<>> THEN st
    ELSE FoldRows(FoldRow(st, Head(batch), processed_file_keys), Tail(batch),
                  processed_file_keys)

\* process_batch without the check of lines 40-42: no row is skipped
process_batch_no_skip(batch, processed_file_keys) == FoldRows(EmptyFold, batch, {})

process_batch(batch, processed_file_keys) == FoldRows(EmptyFold, batch, processed_file_keys)

(***************************************************************************)
(* DataProcessor.prepare_csv_rows                                          *)
(***************************************************************************)
RECURSIVE JoinBar(_)
JoinBar(vals) == IF vals = <<>> THEN ""
                 ELSE IF Len(vals) = 1 THEN vals[1]
                 ELSE vals[1] \o " | " \o JoinBar(Tail(vals))

\* [rv['value'] for rv in report_values if rv['value']]
TruthyValues(fields) == SelectSeq([i \in 1..Len(fields) |-> fields[i].value], Truthy)

\* lines 110-114
ReportValue(report, study) ==
    IF ReportOf(report, study) = <<>> THEN NoneStr
    ELSE JoinBar(TruthyValues(ReportOf(report, study)))

\* lines 116-125: os.path.join(output_dir, 'dicom_files', f"{instance_id}.dcm")
LocalFilePath(file_info, output_dir) ==
    IF Truthy(file_info.file_url)
    THEN output_dir \o "/dicom_files/" \o ToString(file_info.instance_id) \o ".dcm"
    ELSE NoneStr

CsvRow(file_info, report, output_dir) ==
    [study_id |-> file_info.study_id,
     series_number |-> file_info.series_number,
     instance_number |-> file_info.instance_number,
     instance_id |-> file_info.instance_id,
     file_path |-> file_info.file_path,
     field_created_at |-> file_info.field_created_at,
     file_url |-> file_info.file_url,
     report_value |-> ReportValue(report, file_info.study_id),
     local_file_path |-> LocalFilePath(file_info, output_dir),
     downloaded |-> FALSE,
     jpg_path |-> NoneStr]

RECURSIVE prepare_csv_rows(_, _, _, _)
prepare_csv_rows(file_data, report, processed_file_keys, output_dir) ==
    IF file_data = <<>> THEN <<>>
    ELSE LET rest == prepare_csv_rows(Tail(file_data), report, processed_file_keys, output_dir)
         IN IF KeyStr(Head(file_data).key) \in processed_file_keys THEN rest
            ELSE <<CsvRow(Head(file_data), report, output_dir)>> \o rest

\* the ArtifactKey string of an output row (the series is fixed by the study)
RowKeyStr(csv_row) ==
    KeyStr(<<csv_row.study_id, SeriesOf(csv_row.study_id), csv_row.instance_id,
             csv_row.file_path>>)

RowKeys(csv_rows) == {RowKeyStr(csv_rows[i]) : i \in 1..Len(csv_rows)}

NoDuplicateRows(csv_rows) ==
    \A i, j \in 1..Len(csv_rows) : RowKeyStr(csv_rows[i]) = RowKeyStr(csv_rows[j]) => i = j

(***************************************************************************)
(* process_batch_task, called synchronously by the page task               *)
(***************************************************************************)
JpgPath(instance_id, output_dir) ==
    output_dir \o "/images_jpg/" \o ToString(instance_id) \o ".jpg"

\* the loop of lines 62-65 without its condition: every row becomes a download task
DownloadTasksAll(csv_rows) == csv_rows

\* lines 62-65
DownloadTasks(csv_rows) ==
    SelectSeq(csv_rows, LAMBDA r : Truthy(r.file_url) /\ Truthy(r.local_file_path))

\* lines 78-88: the first row with this local path is tagged
MarkDownloaded(csv_rows, local_path, converted, output_dir) ==
    IF \E i \in 1..Len(csv_rows) : csv_rows[i].local_file_path = local_path
    THEN LET i == CHOOSE n \in 1..Len(csv_rows) :
                     /\ csv_rows[n].local_file_path = local_path
                     /\ \A m \in 1..(n - 1) : csv_rows[m].local_file_path # local_path
         IN [csv_rows EXCEPT ![i].downloaded = TRUE,
                             ![i].jpg_path = IF converted
                                             THEN JpgPath(csv_rows[i].instance_id, output_dir)
                                             ELSE @]
    ELSE csv_rows

\* lines 74-88; dl_fail and cv_fail are the local paths whose download / conversion fails
RECURSIVE DownloadAll(_, _, _, _, _)
DownloadAll(csv_rows, tasks, dl_fail, cv_fail, output_dir) ==
    IF tasks = <<>> THEN csv_rows
    ELSE LET p == Head(tasks).local_file_path
             marked == IF p \in dl_fail THEN csv_rows
                       ELSE MarkDownloaded(csv_rows, p, p \notin cv_fail, output_dir)
         IN DownloadAll(marked, Tail(tasks), dl_fail, cv_fail, output_dir)

DownloadedCount(tasks, dl_fail) ==
    Len(SelectSeq(tasks, LAMBDA r : r.local_file_path \notin dl_fail))

\* lines 109-119: the result of a batch whose processing raised
BatchFailure ==
    [success |-> FALSE, records_processed |-> 0, files_found |-> 0, csv_rows |-> 0,
     files_downloaded |-> 0, processed_file_keys |-> <<>>, csv_rows_data |-> <<>>]

\* lines 42-107
process_batch_task(batch_data, processed_file_keys, output_dir, dl_fail, cv_fail) ==
    LET processed_keys_set == processed_file_keys
        folded == process_batch(batch_data, processed_keys_set)
        csv_rows == prepare_csv_rows(folded.file_data, folded.report,
                                     processed_keys_set, output_dir)
        tasks == DownloadTasks(csv_rows)
    IN [success |-> TRUE,
        records_processed |-> Len(batch_data),
        files_found |-> Len(folded.file_data),
        csv_rows |-> Len(csv_rows),
        files_downloaded |-> DownloadedCount(tasks, dl_fail),
        processed_file_keys |-> folded.keys,
        csv_rows_data |-> DownloadAll(csv_rows, tasks, dl_fail, cv_fail, output_dir)]

(***************************************************************************)
(* BatchCreator                                                            *)
(***************************************************************************)
\* for i in range(0, len(data), batch_size): batches.append(data[i:i + batch_size])
RECURSIVE create_batches(_, _)
create_batches(data, batch_size) ==
    IF data = <<>> THEN <<>>
    ELSE <<SubSeq(data, 1, Min(batch_size, Len(data)))>>
         \o create_batches(SubSeq(data, Min(batch_size, Len(data)) + 1, Len(data)), batch_size)

\* line 40 with a plain floor division
get_batch_count_floor(total_items, batch_size) == total_items \div batch_size

get_batch_count(total_items, batch_size) == (total_items + batch_size - 1) \div batch_size

(***************************************************************************)
(* QueryExecutor.fetch_page: OFFSET page * page_size LIMIT page_size over  *)
(* the ordered result of the query                                         *)
(***************************************************************************)
fetch_page(rows, page, page_size) ==
    SubSeq(rows, Min(page * page_size, Len(rows)) + 1,
           Min(page * page_size + page_size, Len(rows)))

(***************************************************************************)
(* process_page_batch_task: one attempt that runs to its return statement. *)
(* bad is the set of batch numbers whose process_batch_task raised inside  *)
(* its own try block.                                                      *)
(***************************************************************************)
EmptyPageResult(page) ==
    [success |-> TRUE, page |-> page, batches_processed |-> 0, records_processed |-> 0,
     total_files |-> 0, total_csv_rows |-> 0, total_downloaded |-> 0,
     processed_file_keys |-> {}, csv_rows |-> <<>>]

\* lines 338-344; the orchestrator reads the absent entries with .get(..., default)
FailedPageResult(page) ==
    [success |-> FALSE, page |-> page, batches_processed |-> 0, records_processed |-> 0,
     total_files |-> 0, total_csv_rows |-> 0, total_downloaded |-> 0,
     processed_file_keys |-> {}, csv_rows |-> <<>>]

\* the loop of lines 300-319 leaving at the first batch that raised
BatchResultsAbort(batches, processed_file_keys, output_dir, bad, dl_fail, cv_fail) ==
    [n \in 1..Len(batches) |->
        IF \E m \in bad : m <= n THEN BatchFailure
        ELSE process_batch_task(batches[n], processed_file_keys, output_dir, dl_fail, cv_fail)]

\* lines 305-311: every batch gets the keys the page task was dispatched with
BatchResults(batches, processed_file_keys, output_dir, bad, dl_fail, cv_fail) ==
    [n \in 1..Len(batches) |->
        IF n \in bad THEN BatchFailure
        ELSE process_batch_task(batches[n], processed_file_keys, output_dir, dl_fail, cv_fail)]

RECURSIVE SumOver(_, _)
SumOver(results, field) ==
    IF results = <<>> THEN 0 ELSE results[1][field] + SumOver(Tail(results), field)

\* lines 300-331 with records_processed counting every record of the page, the
\* records of the batches that raised included
PageResultCountAll(rows, page, page_size, batch_size, processed_file_keys, output_dir, bad, dl_fail, cv_fail) ==
    LET page_results == fetch_page(rows, page, page_size)
        batches == create_batches(page_results, batch_size)
        results == BatchResults(batches, processed_file_keys, output_dir, bad, dl_fail, cv_fail)
        good == SelectSeq(results, LAMBDA r : r.success)
    IN IF page_results = <<>> THEN EmptyPageResult(page)
       ELSE [success |-> TRUE,
             page |-> page,
             batches_processed |-> Len(batches),
             records_processed |-> Len(page_results),
             total_files |-> SumOver(good, "files_found"),
             total_csv_rows |-> SumOver(good, "csv_rows"),
             total_downloaded |-> SumOver(good, "files_downloaded"),
             processed_file_keys |->
                 Range(Concat([i \in 1..Len(good) |-> good[i].processed_file_keys])),
             csv_rows |-> Concat([i \in 1..Len(good) |-> good[i].csv_rows_data])]

\* lines 300-331
PageResult(rows, page, page_size, batch_size, processed_file_keys, output_dir, bad, dl_fail, cv_fail) ==
    LET page_results == fetch_page(rows, page, page_size)
        batches == create_batches(page_results, batch_size)
        results == BatchResults(batches, processed_file_keys, output_dir, bad, dl_fail, cv_fail)
        good == SelectSeq(results, LAMBDA r : r.success)
    IN IF page_results = <<>> THEN EmptyPageResult(page)
       ELSE [success |-> TRUE,
             page |-> page,
             batches_processed |-> Len(batches),
             records_processed |-> SumOver(good, "records_processed"),
             total_files |-> SumOver(good, "files_found"),
             total_csv_rows |-> SumOver(good, "csv_rows"),
             total_downloaded |-> SumOver(good, "files_downloaded"),
             processed_file_keys |->
                 Range(Concat([i \in 1..Len(good) |-> good[i].processed_file_keys])),
             csv_rows |-> Concat([i \in 1..Len(good) |-> good[i].csv_rows_data])]

(***************************************************************************)
(* The source: the ordered result of get_all_studies_data.  Every file of  *)
(* a study is joined with every report field of the study (one row with a  *)
(* null field when the study has none), ORDER BY study, series number,     *)
(* instance number, file, field created_at.                                *)
(***************************************************************************)
FirstValue == "a"

\* the report fields of a study, by created_at: field i was created at time i
FieldLists == {<<>>} \cup
              UNION {{fl \in [1..n -> Values] : fl[1] = FirstValue} : n \in FieldCounts}

RowsOfFile(study, f, fl) ==
    IF fl = <<>> THEN <<MkRow(study, f, NoneStr, NoneTime)>>
    ELSE [i \in 1..Len(fl) |-> MkRow(study, f, fl[i], i)]

RowsOfStudy(study, nfiles, fl) == Concat([f \in 1..nfiles |-> RowsOfFile(study, f, fl)])

SourceOf(nfiles, fields) ==
    Concat([s \in 1..Cardinality(Studies) |-> RowsOfStudy(s, nfiles[s], fields[s])])

Sources == {src \in {SourceOf(nf, fl) : nf \in [Studies -> FileCounts],
                                        fl \in [Studies -> FieldLists]} :
               Len(src) <= MaxRows}

SourceKeys(rows) == {KeyStr(FileKey(rows[i])) : i \in 1..Len(rows)}

(***************************************************************************)
(* State.                                                                  *)
(***************************************************************************)
VARIABLES
    source,               \* the rows the query returns, in its order
    progress_file,        \* extraction_progress.json on disk
    csv_file,             \* the rows of the CSV file on disk
    pc,                   \* position of ETLPipeline.run
    start_page,           \* progress.get('current_page', 0)
    total_pages,
    processed_file_keys,  \* self.processed_file_keys
    all_csv_rows,         \* self.all_csv_rows
    dispatch_keys,        \* processed_file_keys argument of the dispatched page tasks
    units,                \* the page tasks of the group: page -> [st, retries, result]
    merge_i,              \* next page of the fan-in loop
    outcome,              \* how run ended
    uploaded,             \* what the uploads of upload_to_gcs returned
    runs,
    faults,
    loaded,               \* history: the two files as they were at load_progress
    fetched,              \* history: pages whose task started in this run
    crash_merged,         \* history: pages merged when the previous run was killed
    run_result,           \* what run returned to its caller
    prev_failed,          \* history: pages whose task failed in the run that wrote
                          \* the checkpoint now on disk
    f_pc, f_batch, f_keys, f_first, f_second,  \* the fold harness (FoldSpec)
    f_rows,               \* prepare_csv_rows of the first fold
    b_pc, b_data, b_size, b_batches, b_count   \* the BatchCreator harness (BatchSpec)

pvars == <<source, uploaded, progress_file, csv_file, pc, start_page, total_pages,
           processed_file_keys, all_csv_rows, dispatch_keys, units, merge_i, outcome,
           runs, faults, loaded, fetched, crash_merged, run_result, prev_failed>>
fvars == <<f_pc, f_batch, f_keys, f_first, f_second, f_rows>>
bvars == <<b_pc, b_data, b_size, b_batches, b_count>>
vars == <<pvars, fvars, bvars>>

MissingFile == [state |-> "missing", current_page |-> 0, keys |-> {}]
CorruptFile == [state |-> "corrupt", current_page |-> 0, keys |-> {}]
SavedFile(page, keys) == [state |-> "ok", current_page |-> page, keys |-> keys]

NoUnits == [p \in {} |-> 0]

\* what run hands to its caller: nothing yet, the dictionary of lines 314-323, the
\* dictionary of lines 329-332, or an exception that left run
\* the keys of the dict run returns: lines 314-323 and lines 329-332
SuccessKeys == {"success", "total_count", "total_pages", "processed_files",
                "downloaded_files", "uploaded_files", "csv_rows", "total_time"}
ErrorKeys == {"success", "error"}

NoResult == [returned |-> FALSE, raised |-> FALSE, success |-> FALSE, error |-> "", keys |-> {}]
SuccessResult == [returned |-> TRUE, raised |-> FALSE, success |-> TRUE, error |-> "", keys |-> SuccessKeys]
ErrorResult(e) == [returned |-> TRUE, raised |-> FALSE, success |-> FALSE, error |-> e, keys |-> ErrorKeys]
RaisedResult(e) == [returned |-> FALSE, raised |-> TRUE, success |-> FALSE, error |-> e, keys |-> {}]

Terminal(u) == u.st \in {"SUCCEEDED", "FAILED_FINAL", "RAISED"}

FoldOff == /\ f_pc = "off" /\ f_batch = <<>> /\ f_keys = {}
           /\ f_first = EmptyFold /\ f_second = EmptyFold /\ f_rows = <<>>

BatchOff == /\ b_pc = "off" /\ b_data = <<>> /\ b_size = 1
            /\ b_batches = <<>> /\ b_count = 0

\* ETLPipeline.__init__ of a new process
FreshMemory ==
    /\ pc' = "start"
    /\ start_page' = 0
    /\ total_pages' = 0
    /\ processed_file_keys' = {}
    /\ all_csv_rows' = <<>>
    /\ dispatch_keys' = {}
    /\ units' = NoUnits
    /\ merge_i' = 0
    /\ outcome' = "none"
    /\ uploaded' = "none"
    /\ run_result' = NoResult
    /\ loaded' = [file |-> MissingFile, csv |-> <<>>]
    /\ fetched' = {}

Init ==
    /\ source \in Sources
    /\ progress_file = MissingFile
    /\ csv_file = <<>>
    /\ pc = "start"
    /\ start_page = 0
    /\ total_pages = 0
    /\ processed_file_keys = {}
    /\ all_csv_rows = <<>>
    /\ dispatch_keys = {}
    /\ units = NoUnits
    /\ merge_i = 0
    /\ outcome = "none"
    /\ uploaded = "none"
    /\ runs = 1
    /\ faults = 0
    /\ loaded = [file |-> MissingFile, csv |-> <<>>]
    /\ fetched = {}
    /\ crash_merged = {}
    /\ run_result = NoResult
    /\ prev_failed = {}
    /\ FoldOff
    /\ BatchOff

(***************************************************************************)
(* ETLPipeline.run, step by step.                                          *)
(***************************************************************************)
\* load_progress without line 98 (the loaded keys are dropped)
LoadNoKeys ==
    /\ pc = "start"
    /\ start_page' = IF progress_file.state = "ok" THEN progress_file.current_page ELSE 0
    /\ loaded' = [file |-> progress_file, csv |-> csv_file]
    /\ pc' = "loaded"
    /\ UNCHANGED <<source, uploaded, progress_file, csv_file, total_pages, processed_file_keys,
                   all_csv_rows, dispatch_keys, units, merge_i, outcome, run_result, runs, faults,
                   fetched, crash_merged, prev_failed, fvars, bvars>>

\* load_progress without the try block of lines 93-101: a file that cannot be read
\* or parsed ends the run
LoadStrict ==
    /\ pc = "start"
    /\ IF progress_file.state = "corrupt"
       THEN /\ outcome' = "error"
            /\ run_result' = ErrorResult("load")
            /\ pc' = "done"
            /\ UNCHANGED <<processed_file_keys, start_page>>
       ELSE /\ processed_file_keys' = progress_file.keys
            /\ start_page' = progress_file.current_page
            /\ pc' = "loaded"
            /\ UNCHANGED <<outcome, run_result>>
    /\ loaded' = [file |-> progress_file, csv |-> csv_file]
    /\ UNCHANGED <<source, uploaded, progress_file, csv_file, total_pages, all_csv_rows,
                   dispatch_keys, units, merge_i, runs, faults, fetched,
                   crash_merged, prev_failed, fvars, bvars>>

\* lines 189-190 with load_progress (90-107): a missing or unreadable file gives the
\* default progress and leaves self.processed_file_keys as constructed
Load ==
    /\ pc = "start"
    /\ IF progress_file.state = "ok"
       THEN /\ processed_file_keys' = progress_file.keys
            /\ start_page' = progress_file.current_page
       ELSE /\ processed_file_keys' = processed_file_keys
            /\ start_page' = 0
    /\ loaded' = [file |-> progress_file, csv |-> csv_file]
    /\ pc' = "loaded"
    /\ UNCHANGED <<source, uploaded, progress_file, csv_file, total_pages, all_csv_rows,
                   dispatch_keys, units, merge_i, outcome, run_result, runs, faults, fetched,
                   crash_merged, prev_failed, fvars, bvars>>

TotalPages(total_count, page_size) == (total_count + page_size - 1) \div page_size

\* lines 195-197 with get_total_count returning the count
Count ==
    /\ pc = "loaded"
    /\ total_pages' = TotalPages(Len(source), PageSize)
    /\ pc' = "counted"
    /\ UNCHANGED <<source, uploaded, progress_file, csv_file, start_page, processed_file_keys,
                   all_csv_rows, dispatch_keys, units, merge_i, outcome, run_result, runs, faults,
                   loaded, fetched, crash_merged, prev_failed, fvars, bvars>>

\* lines 195-197 with get_total_count catching a data-store error (query_executor
\* 35-37: return 0)
CountError ==
    /\ pc = "loaded"
    /\ faults < MaxFaults
    /\ faults' = faults + 1
    /\ total_pages' = TotalPages(0, PageSize)
    /\ pc' = "counted"
    /\ UNCHANGED <<source, uploaded, progress_file, csv_file, start_page, processed_file_keys,
                   all_csv_rows, dispatch_keys, units, merge_i, outcome, run_result, runs,
                   loaded, fetched, crash_merged, prev_failed, fvars, bvars>>

\* query_executor line 30: new_cursor raises before the try block, the error leaves
\* get_total_count and is caught by run (lines 325-332)
CountRaise ==
    /\ pc = "loaded"
    /\ faults < MaxFaults
    /\ faults' = faults + 1
    /\ outcome' = "error"
    /\ run_result' = ErrorResult("count")
    /\ pc' = "done"
    /\ UNCHANGED <<source, uploaded, progress_file, csv_file, start_page, total_pages,
                   processed_file_keys, all_csv_rows, dispatch_keys, units, merge_i,
                   runs, loaded, fetched, crash_merged, prev_failed, fvars, bvars>>

\* bad is history: the batches whose process_batch_task raised in the attempt that
\* returned
PendingUnit(p) == [st |-> "PENDING", retries |-> 0, result |-> FailedPageResult(p), bad |-> {}]

\* the loop of lines 219-228 over range(0, total_pages): the loaded current_page is
\* not used
DispatchFromZero ==
    /\ pc = "counted"
    /\ dispatch_keys' = processed_file_keys
    /\ units' = [p \in 0..(total_pages - 1) |-> PendingUnit(p)]
    /\ pc' = "waiting"
    /\ UNCHANGED <<source, uploaded, progress_file, csv_file, start_page, total_pages,
                   processed_file_keys, all_csv_rows, merge_i, outcome, run_result, runs, faults,
                   loaded, fetched, crash_merged, prev_failed, fvars, bvars>>

\* lines 216-231: one page task per page of range(start_page, total_pages), each with
\* a copy of the keys loaded
Dispatch ==
    /\ pc = "counted"
    /\ dispatch_keys' = processed_file_keys
    /\ units' = [p \in start_page..(total_pages - 1) |-> PendingUnit(p)]
    /\ pc' = "waiting"
    /\ UNCHANGED <<source, uploaded, progress_file, csv_file, start_page, total_pages,
                   processed_file_keys, all_csv_rows, merge_i, outcome, run_result, runs, faults,
                   loaded, fetched, crash_merged, prev_failed, fvars, bvars>>

\* lines 229-231: apply_async raises (no broker), caught by run (lines 325-332)
DispatchError ==
    /\ pc = "counted"
    /\ faults < MaxFaults
    /\ faults' = faults + 1
    /\ outcome' = "error"
    /\ run_result' = ErrorResult("dispatch")
    /\ pc' = "done"
    /\ UNCHANGED <<source, uploaded, progress_file, csv_file, start_page, total_pages,
                   processed_file_keys, all_csv_rows, dispatch_keys, units, merge_i,
                   runs, loaded, fetched, crash_merged, prev_failed, fvars, bvars>>

(***************************************************************************)
(* The page tasks, run by the workers.  They run whether or not the        *)
(* orchestrator still waits for them.                                      *)
(***************************************************************************)
\* an attempt of page task p that reaches its return statement; bad are the batches
\* whose process_batch_task raised.  Downloads and conversions succeed here.
UnitSucceed(p) ==
    /\ pc \in {"waiting", "done"}
    /\ p \in DOMAIN units
    /\ units[p].st \in {"PENDING", "RETRYING"}
    /\ \E bad \in SUBSET (1..get_batch_count(Len(fetch_page(source, p, PageSize)), BatchSize)) :
           /\ faults + Cardinality(bad) <= MaxFaults
           /\ faults' = faults + Cardinality(bad)
           /\ units' = [units EXCEPT ![p].st = "SUCCEEDED",
                           ![p].bad = bad,
                           ![p].result = PageResult(source, p, PageSize, BatchSize,
                                                    dispatch_keys, OutputDir,
                                                    bad, {}, {})]
    /\ fetched' = fetched \cup {p}
    /\ UNCHANGED <<source, uploaded, progress_file, csv_file, pc, start_page, total_pages,
                   processed_file_keys, all_csv_rows, dispatch_keys, merge_i, outcome, run_result,
                   runs, loaded, crash_merged, prev_failed, fvars, bvars>>

\* an attempt that raises (lines 333-336) and is retried by self.retry
UnitRetry(p) ==
    /\ pc \in {"waiting", "done"}
    /\ p \in DOMAIN units
    /\ units[p].st \in {"PENDING", "RETRYING"}
    /\ units[p].retries < MaxRetries
    /\ IF units[p].retries = 0
       THEN faults < MaxFaults /\ faults' = faults + 1
       ELSE faults' = faults
    /\ units' = [units EXCEPT ![p].st = "RETRYING", ![p].retries = @ + 1]
    /\ fetched' = fetched \cup {p}
    /\ UNCHANGED <<source, uploaded, progress_file, csv_file, pc, start_page, total_pages,
                   processed_file_keys, all_csv_rows, dispatch_keys, merge_i, outcome, run_result,
                   runs, loaded, crash_merged, prev_failed, fvars, bvars>>

\* an attempt that raises with the retries used up: self.retry(exc=e) raises, and the
\* task either returns the failure result of lines 337-344 (MaxRetriesExceededError)
\* or ends with the exception that self.retry raised
UnitGiveUp(p) ==
    /\ pc \in {"waiting", "done"}
    /\ p \in DOMAIN units
    /\ units[p].st \in {"PENDING", "RETRYING"}
    /\ units[p].retries = MaxRetries
    /\ \/ units' = [units EXCEPT ![p].st = "FAILED_FINAL", ![p].result = FailedPageResult(p)]
       \/ units' = [units EXCEPT ![p].st = "RAISED"]
    /\ fetched' = fetched \cup {p}
    /\ UNCHANGED <<source, uploaded, progress_file, csv_file, pc, start_page, total_pages,
                   processed_file_keys, all_csv_rows, dispatch_keys, merge_i, outcome, run_result,
                   runs, faults, loaded, crash_merged, prev_failed, fvars, bvars>>

(***************************************************************************)
(* Fan-in.                                                                 *)
(***************************************************************************)
AllTerminal == \A p \in DOMAIN units : Terminal(units[p])

\* line 235: result.get returns the list of results, in page order
Join ==
    /\ pc = "waiting"
    /\ \A p \in DOMAIN units : units[p].st \in {"SUCCEEDED", "FAILED_FINAL"}
    /\ merge_i' = start_page
    /\ pc' = "merging"
    /\ UNCHANGED <<source, uploaded, progress_file, csv_file, start_page, total_pages,
                   processed_file_keys, all_csv_rows, dispatch_keys, units, outcome, run_result,
                   runs, faults, loaded, fetched, crash_merged, prev_failed, fvars, bvars>>

\* line 235: result.get re-raises the exception of a task that ended with one
\* (lines 325-332: run returns success False)
JoinRaise ==
    /\ pc = "waiting"
    /\ \E p \in DOMAIN units :
          /\ units[p].st = "RAISED"
          /\ \A q \in DOMAIN units : q < p => Terminal(units[q])
    /\ outcome' = "error"
    /\ run_result' = ErrorResult("task")
    /\ pc' = "done"
    /\ UNCHANGED <<source, uploaded, progress_file, csv_file, start_page, total_pages,
                   processed_file_keys, all_csv_rows, dispatch_keys, units, merge_i,
                   runs, faults, loaded, fetched, crash_merged, prev_failed, fvars, bvars>>

\* the timeout handler that still checkpoints the run
WaitTimeoutSaves ==
    /\ pc = "waiting"
    /\ ~AllTerminal
    /\ faults < MaxFaults
    /\ faults' = faults + 1
    /\ progress_file' = SavedFile(total_pages, processed_file_keys)
    /\ outcome' = "timeout"
    /\ run_result' = ErrorResult("timeout")
    /\ pc' = "done"
    /\ UNCHANGED <<source, uploaded, csv_file, start_page, total_pages,
                   processed_file_keys, all_csv_rows, dispatch_keys, units, merge_i,
                   runs, loaded, fetched, crash_merged, prev_failed, fvars, bvars>>

\* line 235: result.get(timeout=3600) raises while a task is still running
\* (lines 325-332: run returns success False; the tasks are not revoked)
WaitTimeout ==
    /\ pc = "waiting"
    /\ ~AllTerminal
    /\ faults < MaxFaults
    /\ faults' = faults + 1
    /\ outcome' = "timeout"
    /\ run_result' = ErrorResult("timeout")
    /\ pc' = "done"
    /\ UNCHANGED <<source, uploaded, progress_file, csv_file, start_page, total_pages,
                   processed_file_keys, all_csv_rows, dispatch_keys, units, merge_i,
                   runs, loaded, fetched, crash_merged, prev_failed, fvars, bvars>>

\* lines 253-256 with the ledger assigned instead of updated
MergeResultAssign(keys, rows, page_result) ==
    IF page_result.success
    THEN [keys |-> page_result.processed_file_keys, rows |-> rows \o page_result.csv_rows]
    ELSE [keys |-> keys, rows |-> rows]

\* lines 245-256: one iteration of the aggregation loop
MergeResult(keys, rows, page_result) ==
    IF page_result.success
    THEN [keys |-> keys \cup page_result.processed_file_keys,
          rows |-> rows \o page_result.csv_rows]
    ELSE [keys |-> keys, rows |-> rows]

MergeStep ==
    /\ pc = "merging"
    /\ merge_i < total_pages
    /\ LET m == MergeResult(processed_file_keys, all_csv_rows, units[merge_i].result)
       IN /\ processed_file_keys' = m.keys
          /\ all_csv_rows' = m.rows
    /\ merge_i' = merge_i + 1
    /\ UNCHANGED <<source, uploaded, progress_file, csv_file, pc, start_page, total_pages,
                   dispatch_keys, units, outcome, run_result, runs, faults, loaded, fetched,
                   crash_merged, prev_failed, fvars, bvars>>

\* save_csv_rows called with append=True: the rows are added to the file
SaveCsvAppend ==
    /\ pc = "merging"
    /\ merge_i >= total_pages
    /\ csv_file' = csv_file \o all_csv_rows
    /\ pc' = "csv_saved"
    /\ UNCHANGED <<source, uploaded, progress_file, start_page, total_pages, processed_file_keys,
                   all_csv_rows, dispatch_keys, units, merge_i, outcome, run_result, runs, faults,
                   loaded, fetched, crash_merged, prev_failed, fvars, bvars>>

\* lines 258-260 with save_csv_rows (118-136): nothing is written for an empty list,
\* otherwise the file is rewritten (append=False)
SaveCsv ==
    /\ pc = "merging"
    /\ merge_i >= total_pages
    /\ csv_file' = IF all_csv_rows = <<>> THEN csv_file ELSE all_csv_rows
    /\ pc' = "csv_saved"
    /\ UNCHANGED <<source, uploaded, progress_file, start_page, total_pages, processed_file_keys,
                   all_csv_rows, dispatch_keys, units, merge_i, outcome, run_result, runs, faults,
                   loaded, fetched, crash_merged, prev_failed, fvars, bvars>>

\* save_csv_rows raising with no except clause around the body of run
SaveCsvRaise ==
    /\ pc = "merging"
    /\ merge_i >= total_pages
    /\ all_csv_rows # <<>>
    /\ faults < MaxFaults
    /\ faults' = faults + 1
    /\ \/ csv_file' = csv_file
       \/ csv_file' = <<>>
    /\ outcome' = "error"
    /\ run_result' = RaisedResult("csv")
    /\ pc' = "done"
    /\ UNCHANGED <<source, uploaded, progress_file, start_page, total_pages,
                   processed_file_keys, all_csv_rows, dispatch_keys, units, merge_i,
                   runs, loaded, fetched, crash_merged, prev_failed, fvars, bvars>>

\* lines 258-260: save_csv_rows raises (lines 130-134 are not guarded); the file is
\* left as it was (open failed) or without rows (the write failed); caught by run
SaveCsvError ==
    /\ pc = "merging"
    /\ merge_i >= total_pages
    /\ all_csv_rows # <<>>
    /\ faults < MaxFaults
    /\ faults' = faults + 1
    /\ \/ csv_file' = csv_file
       \/ csv_file' = <<>>
    /\ outcome' = "error"
    /\ run_result' = ErrorResult("csv")
    /\ pc' = "done"
    /\ UNCHANGED <<source, uploaded, progress_file, start_page, total_pages,
                   processed_file_keys, all_csv_rows, dispatch_keys, units, merge_i,
                   runs, loaded, fetched, crash_merged, prev_failed, fvars, bvars>>

\* the pages whose task returned success False
FailedPages == {p \in DOMAIN units : ~units[p].result.success}

\* line 265 advancing only to the first page whose task failed
SaveProgressToFirstFailure ==
    /\ pc = "csv_saved"
    /\ progress_file' = SavedFile(IF FailedPages = {} THEN total_pages
                                  ELSE CHOOSE p \in FailedPages :
                                           \A q \in FailedPages : p <= q,
                                  processed_file_keys)
    /\ prev_failed' = FailedPages
    /\ pc' = "saved"
    /\ UNCHANGED <<source, uploaded, csv_file, start_page, total_pages, processed_file_keys,
                   all_csv_rows, dispatch_keys, units, merge_i, outcome, run_result, runs,
                   faults, loaded, fetched, crash_merged, fvars, bvars>>

\* lines 262-266 with save_progress (109-116)
SaveProgress ==
    /\ pc = "csv_saved"
    /\ progress_file' = SavedFile(total_pages, processed_file_keys)
    /\ prev_failed' = FailedPages
    /\ pc' = "saved"
    /\ UNCHANGED <<source, uploaded, csv_file, start_page, total_pages, processed_file_keys,
                   all_csv_rows, dispatch_keys, units, merge_i, outcome, run_result, runs,
                   faults, loaded, fetched, crash_merged, fvars, bvars>>

\* save_progress lines 115-116: the write fails and the error is only logged; the
\* file is left as it was (open failed) or truncated (the dump failed)
SaveProgressFail ==
    /\ pc = "csv_saved"
    /\ faults < MaxFaults
    /\ faults' = faults + 1
    /\ \/ progress_file' = progress_file /\ prev_failed' = prev_failed
       \/ progress_file' = CorruptFile /\ prev_failed' = {}
    /\ pc' = "saved"
    /\ UNCHANGED <<source, uploaded, csv_file, start_page, total_pages, processed_file_keys,
                   all_csv_rows, dispatch_keys, units, merge_i, outcome, run_result, runs,
                   loaded, fetched, crash_merged, fvars, bvars>>

\* upload_to_gcs with an upload that returns False: the return values of
\* upload_file and upload_directory_contents are looked at and a False raises
UploadChecked ==
    /\ pc = "saved"
    /\ \E ok \in BOOLEAN :
          /\ uploaded' = IF ok THEN "ok" ELSE "failed"
          /\ outcome' = IF ok THEN "success" ELSE "error"
          /\ run_result' = IF ok THEN SuccessResult ELSE ErrorResult("upload")
    /\ pc' = "done"
    /\ UNCHANGED <<source, progress_file, csv_file, start_page, total_pages,
                   processed_file_keys, all_csv_rows, dispatch_keys, units, merge_i,
                   runs, faults, loaded, fetched, crash_merged, prev_failed, fvars, bvars>>

\* lines 291-323: upload_to_gcs (138-167) calls upload_file and
\* upload_directory_contents, which return False when an upload fails
\* (gcs_uploader.py:57-59, 85-87), and drops what they return; run returns success True
Upload ==
    /\ pc = "saved"
    /\ \E ok \in BOOLEAN : uploaded' = IF ok THEN "ok" ELSE "failed"
    /\ outcome' = "success"
    /\ run_result' = SuccessResult
    /\ pc' = "done"
    /\ UNCHANGED <<source, progress_file, csv_file, start_page, total_pages,
                   processed_file_keys, all_csv_rows, dispatch_keys, units, merge_i,
                   runs, faults, loaded, fetched, crash_merged, prev_failed, fvars, bvars>>

\* line 291: upload_to_gcs raises (lines 138-167 are not guarded), caught by run
UploadError ==
    /\ pc = "saved"
    /\ faults < MaxFaults
    /\ faults' = faults + 1
    /\ outcome' = "error"
    /\ run_result' = ErrorResult("upload")
    /\ pc' = "done"
    /\ UNCHANGED <<source, uploaded, progress_file, csv_file, start_page, total_pages,
                   processed_file_keys, all_csv_rows, dispatch_keys, units, merge_i,
                   runs, loaded, fetched, crash_merged, prev_failed, fvars, bvars>>

\* the pages the fan-in loop has merged so far
MergedPages == IF pc = "merging"
               THEN {p \in DOMAIN units : p < merge_i /\ units[p].result.success}
               ELSE {}

\* the orchestrator process is killed; memory is lost, the files stay
Crash ==
    /\ pc \in {"loaded", "counted", "waiting", "merging", "csv_saved", "saved"}
    /\ faults < MaxFaults
    /\ faults' = faults + 1
    /\ crash_merged' = MergedPages
    /\ outcome' = "crashed"
    /\ run_result' = NoResult
    /\ pc' = "done"
    /\ UNCHANGED <<source, uploaded, progress_file, csv_file, start_page, total_pages,
                   processed_file_keys, all_csv_rows, dispatch_keys, units, merge_i,
                   runs, loaded, fetched, prev_failed, fvars, bvars>>

\* the next run: a new process constructs the pipeline on the same output_dir
NewRun ==
    /\ pc = "done"
    /\ runs < MaxRuns
    /\ runs' = runs + 1
    /\ FreshMemory
    /\ crash_merged' = IF outcome = "crashed" THEN crash_merged ELSE {}
    /\ UNCHANGED <<source, progress_file, csv_file, faults, prev_failed, fvars, bvars>>

Next ==
    \/ Load
    \/ Count
    \/ CountError
    \/ CountRaise
    \/ Dispatch
    \/ DispatchError
    \/ \E p \in 0..MaxRows : UnitSucceed(p)
    \/ \E p \in 0..MaxRows : UnitRetry(p)
    \/ \E p \in 0..MaxRows : UnitGiveUp(p)
    \/ Join
    \/ JoinRaise
    \/ WaitTimeout
    \/ MergeStep
    \/ SaveCsv
    \/ SaveCsvError
    \/ SaveProgress
    \/ SaveProgressFail
    \/ Upload
    \/ UploadError
    \/ Crash
    \/ NewRun

Spec == Init /\ [][Next]_vars

(***************************************************************************)
(* FairSpec: Spec over the sources of FairRows rows, where the workers run *)
(* every page task that is queued, a retried task is queued again          *)
(* (default_retry_delay), and the orchestrator process, unless killed,     *)
(* goes on to its return statement.  Starting another run is up to the     *)
(* operator.                                                               *)
(***************************************************************************)
\* page task p is queued or waits for its retry: an attempt of it can run (an
\* attempt that returns needs no fault), so this is ENABLED of the three task actions
UnitQueued(p) ==
    /\ pc \in {"waiting", "done"}
    /\ p \in DOMAIN units
    /\ units[p].st \in {"PENDING", "RETRYING"}

\* an attempt of page task p: a step of UnitSucceed(p), UnitRetry(p) or UnitGiveUp(p),
\* the only steps that change a queued task
UnitStep(p) == UnitQueued(p) /\ p \in DOMAIN units' /\ units'[p] # units[p]

RunStep == Load \/ Count \/ Dispatch \/ Join \/ JoinRaise \/ MergeStep \/ SaveCsv \/ SaveProgress \/ Upload

\* weak fairness of the attempts of page task p, WF_vars(UnitStep(p)), with ENABLED
\* written as UnitQueued(p)
UnitFair(p) == <>[]UnitQueued(p) => []<><<UnitStep(p)>>_vars

\* the runs over the sources of FairRows rows
FairInit == Init /\ Len(source) = FairRows

FairSpec ==
    /\ FairInit /\ [][Next]_vars
    /\ WF_vars(RunStep)
    /\ \A p \in 0..(TotalPages(FairRows, PageSize) - 1) : UnitFair(p)

(***************************************************************************)
(* FoldSpec: process_batch applied to every batch of at most MaxBatchLen   *)
(* rows of the row universe and every set of processed keys, and then      *)
(* applied again with the keys the first call returned.                    *)
(***************************************************************************)
FoldStudyFiles == {<<1, 1>>, <<1, 2>>, <<2, 1>>}
\* field_value and field_created_at of a row: no field, a field without text, a field
\* with the empty text, one text created at time 1 or 2, another text created at time 2
FoldCells == {<<NoneStr, NoneTime>>, <<NoneStr, 2>>, <<"", 1>>, <<"a", 1>>, <<"a", 2>>, <<"b", 2>>}
FoldRowUniverse == {MkRow(sf[1], sf[2], c[1], c[2]) : sf \in FoldStudyFiles, c \in FoldCells}
\* the files that may be in processed_file_keys before the fold: one of the two files
\* of study 1 and the file of study 2
FoldProcessedFiles == {<<1, 1>>, <<2, 1>>}
FoldKeyStrs == {KeyStr(FileKey(MkRow(sf[1], sf[2], NoneStr, NoneTime))) : sf \in FoldProcessedFiles}
FoldBatches == UNION {[1..n -> FoldRowUniverse] : n \in 0..MaxBatchLen}

PipelineOff ==
    /\ source = <<>>
    /\ progress_file = MissingFile
    /\ csv_file = <<>>
    /\ pc = "off"
    /\ start_page = 0
    /\ total_pages = 0
    /\ processed_file_keys = {}
    /\ all_csv_rows = <<>>
    /\ dispatch_keys = {}
    /\ units = NoUnits
    /\ merge_i = 0
    /\ outcome = "none"
    /\ uploaded = "none"
    /\ runs = 1
    /\ faults = 0
    /\ loaded = [file |-> MissingFile, csv |-> <<>>]
    /\ fetched = {}
    /\ crash_merged = {}
    /\ run_result = NoResult
    /\ prev_failed = {}

FoldInit ==
    /\ PipelineOff
    /\ BatchOff
    /\ f_rows = <<>>
    /\ f_pc = "init"
    /\ f_batch \in FoldBatches
    /\ f_keys \in SUBSET FoldKeyStrs
    /\ f_first = EmptyFold
    /\ f_second = EmptyFold

FoldFirst ==
    /\ f_pc = "init"
    /\ LET folded == process_batch(f_batch, f_keys)
       IN /\ f_first' = folded
          /\ f_rows' = prepare_csv_rows(folded.file_data, folded.report, f_keys, OutputDir)
    /\ f_pc' = "first"
    /\ UNCHANGED <<f_batch, f_keys, f_second, pvars, bvars>>

FoldSecond ==
    /\ f_pc = "first"
    /\ f_second' = process_batch(f_batch, f_keys \cup Range(f_first.keys))
    /\ f_pc' = "second"
    /\ UNCHANGED <<f_batch, f_keys, f_first, f_rows, pvars, bvars>>

FoldNext == FoldFirst \/ FoldSecond

FoldSpec == FoldInit /\ [][FoldNext]_vars

(***************************************************************************)
(* EmitSpec: process_batch_task applied to every batch of at most          *)
(* MaxBatchLen rows over two files, each row with or without a file_url    *)
(* (the task takes any list of rows; the query's CASE gives NULL for a     *)
(* file without original_file), for every set of failing downloads and     *)
(* conversions.                                                            *)
(***************************************************************************)
EmitCells == {<<NoneStr, NoneTime>>, <<"a", 1>>}
MkRowNoUrl(study, f, value, created) == [MkRow(study, f, value, created) EXCEPT !.file_url = NoneStr]
EmitRowUniverse ==
    {MkRow(sf[1], sf[2], c[1], c[2]) : sf \in FoldProcessedFiles, c \in EmitCells}
    \cup {MkRowNoUrl(sf[1], sf[2], c[1], c[2]) : sf \in FoldProcessedFiles, c \in EmitCells}
EmitBatches == UNION {[1..n -> EmitRowUniverse] : n \in 0..MaxBatchLen}
EmitPaths == {LocalFilePath(r, OutputDir) : r \in EmitRowUniverse} \ {NoneStr}

EmitInit ==
    /\ PipelineOff
    /\ BatchOff
    /\ f_rows = <<>>
    /\ f_pc = "init"
    /\ f_batch \in EmitBatches
    /\ f_keys \in SUBSET FoldKeyStrs
    /\ f_first = EmptyFold
    /\ f_second = EmptyFold

\* batch_tasks.py lines 61-88: the downloads and conversions of the prepared rows
EmitDownload ==
    /\ f_pc = "first"
    /\ \E dl_fail \in SUBSET EmitPaths : \E cv_fail \in SUBSET (EmitPaths \ dl_fail) :
           f_rows' = process_batch_task(f_batch, f_keys, OutputDir, dl_fail, cv_fail).csv_rows_data
    /\ f_pc' = "downloaded"
    /\ UNCHANGED <<f_batch, f_keys, f_first, f_second, pvars, bvars>>

EmitNext == FoldFirst \/ EmitDownload

EmitSpec == EmitInit /\ [][EmitNext]_vars

(***************************************************************************)
(* BatchSpec: create_batches and get_batch_count of a BatchCreator         *)
(* constructed with batch size b_size, applied to every list of at most    *)
(* MaxListLen items.                                                       *)
(***************************************************************************)
Items == {0, 1}
BatchLists == UNION {[1..n -> Items] : n \in 0..MaxListLen}

BatchInit ==
    /\ PipelineOff
    /\ FoldOff
    /\ b_pc = "init"
    /\ b_data \in BatchLists
    /\ b_size \in 1..MaxBatchSize
    /\ b_batches = <<>>
    /\ b_count = 0

BatchSplit ==
    /\ b_pc = "init"
    /\ b_batches' = create_batches(b_data, b_size)
    /\ b_pc' = "split"
    /\ UNCHANGED <<b_data, b_size, b_count, pvars, fvars>>

BatchCount ==
    /\ b_pc = "split"
    /\ b_count' = get_batch_count(Len(b_data), b_size)
    /\ b_pc' = "counted"
    /\ UNCHANGED <<b_data, b_size, b_batches, pvars, fvars>>

BatchNext == BatchSplit \/ BatchCount

BatchSpec == BatchInit /\ [][BatchNext]_vars

(***************************************************************************)
(* Claims.                                                                 *)
(***************************************************************************)

\* C1: the merged output of a run, and the CSV file written from it, hold at most
\* one row per ArtifactKey.
C1_AtMostOneRowPerKey == NoDuplicateRows(all_csv_rows) /\ NoDuplicateRows(csv_file)

\* C2: process_batch(B, K) puts no key of K into file_data, and folding B again with
\* K united with the keys the first fold returned gives an empty file_data and an
\* empty key list.
C2_IdempotentFold ==
    /\ f_pc \in {"first", "second"} =>
          \A i \in 1..Len(f_first.file_data) : KeyStr(f_first.file_data[i].key) \notin f_keys
    /\ f_pc = "second" => f_second.file_data = <<>> /\ f_second.keys = <<>>

\* C2 witness: a batch with a key of K and a key outside K has been folded twice.
C2_Witness ==
    /\ f_pc = "second"
    /\ f_first.file_data # <<>>
    /\ \E i \in 1..Len(f_batch) : KeyStr(FileKey(f_batch[i])) \in f_keys
    /\ Len(f_first.keys) > Len(f_first.file_data)

\* the rows the dispatched page tasks fetch, in page order
DispatchedRows ==
    Concat([i \in 1..(total_pages - start_page) |->
               fetch_page(source, start_page + i - 1, PageSize)])

\* every dispatched task returned and none of its batches raised
AllUnitsClean ==
    \A p \in DOMAIN units :
        /\ units[p].st = "SUCCEEDED"
        /\ units[p].result.records_processed = Len(fetch_page(source, p, PageSize))

\* C3: a run that loaded processed_keys = {k1} and whose pages hold rows of k1 and of
\* one new key k2 merges exactly one row, the row of k2.
C3_ResumeEmitsOnlyNewKey ==
    (/\ pc = "csv_saved"
     /\ AllUnitsClean
     /\ loaded.file.state = "ok"
     /\ Cardinality(loaded.file.keys) = 1
     /\ loaded.file.keys \subseteq SourceKeys(DispatchedRows)
     /\ Cardinality(SourceKeys(DispatchedRows)) = 2)
    => /\ Len(all_csv_rows) = 1
       /\ RowKeys(all_csv_rows) = SourceKeys(DispatchedRows) \ loaded.file.keys

\* C4: when a run over 3 pages was killed after its first page (page 0) had been
\* merged, the restarted run starts no task for that page and its output holds no
\* duplicated row for a key of that page.
C4_RestartSkipsMergedPage ==
    (/\ crash_merged = {0}
     /\ outcome # "crashed"
     /\ TotalPages(Len(source), PageSize) = 3)
    => /\ 0 \notin fetched
       /\ \A i, j \in 1..Len(all_csv_rows) :
             (/\ RowKeyStr(all_csv_rows[i]) = RowKeyStr(all_csv_rows[j])
              /\ RowKeyStr(all_csv_rows[i]) \in SourceKeys(fetch_page(source, 0, PageSize)))
             => i = j

\* C5: the resume page a run has saved is at least the resume page it loaded.
C5_ResumePageAdvances ==
    (pc = "saved" /\ progress_file.state = "ok") => progress_file.current_page >= start_page

\* C6: on a readable checkpoint the keys a run loaded stay in its ledger and in the
\* checkpoint it leaves on disk.
C6_KeysOnlyGrow ==
    (pc \notin {"start", "off"} /\ loaded.file.state = "ok")
    => /\ loaded.file.keys \subseteq processed_file_keys
       /\ progress_file.state = "ok" => loaded.file.keys \subseteq progress_file.keys

\* C6 witness: a run that loaded a non-empty ledger has saved a strictly larger one.
C6_Witness ==
    /\ pc = "saved"
    /\ loaded.file.state = "ok"
    /\ loaded.file.keys # {}
    /\ progress_file.state = "ok"
    /\ progress_file.keys # loaded.file.keys

\* C7: right after load, the key of every row of the CSV file earlier runs left on
\* disk is in the loaded processed_keys.
C7_OutputCoveredByLedger ==
    pc = "loaded" => RowKeys(csv_file) \subseteq processed_file_keys

\* C8: on an unchanged source every key is eventually recorded in the checkpoint.
\* A checkpoint whose resume page has reached the page count of the source makes every
\* later run dispatch range(current_page, total_pages) = no page, so the claim needs
\* such a checkpoint to hold every key of the source.
C8_EveryKeyDelivered ==
    (/\ progress_file.state = "ok"
     /\ progress_file.current_page >= TotalPages(Len(source), PageSize))
    => SourceKeys(source) \subseteq progress_file.keys

\* the rows of the tasks that succeeded, in page order
SucceededRows ==
    Concat([i \in 1..(total_pages - start_page) |->
               IF units[start_page + i - 1].st = "SUCCEEDED"
               THEN units[start_page + i - 1].result.csv_rows
               ELSE <<>>])

\* C9: after the fan-in loop the ledger is the dispatch-time ledger united with the
\* keys of the tasks that succeeded, and the merged rows are those tasks' rows in
\* page order.
C9_FanInMergesSucceeded ==
    pc \in {"csv_saved", "saved"}
    => /\ processed_file_keys =
             dispatch_keys \cup
             UNION {units[p].result.processed_file_keys :
                       p \in {q \in DOMAIN units : units[q].st = "SUCCEEDED"}}
       /\ all_csv_rows = SucceededRows

\* C9 witness: the fan-in has merged the results of a failed task and of two tasks
\* that succeeded with rows.
C9_Witness ==
    /\ pc = "csv_saved"
    /\ \E p \in DOMAIN units : units[p].st = "FAILED_FINAL"
    /\ \E p, q \in DOMAIN units :
          /\ p # q
          /\ units[p].st = "SUCCEEDED" /\ units[p].result.csv_rows # <<>>
          /\ units[q].st = "SUCCEEDED" /\ units[q].result.csv_rows # <<>>

\* C10: when the wait timed out nothing was merged, the CSV file and the checkpoint
\* are as they were loaded, also after the abandoned tasks have finished.
C10_TimeoutDiscards ==
    outcome = "timeout"
    => /\ progress_file = loaded.file
       /\ csv_file = loaded.csv
       /\ all_csv_rows = <<>>
       /\ processed_file_keys = dispatch_keys

\* C10 witness: the run timed out and every abandoned task has since succeeded, one
\* of them with rows.
C10_Witness ==
    /\ outcome = "timeout"
    /\ \A p \in DOMAIN units : units[p].st = "SUCCEEDED"
    /\ \E p \in DOMAIN units : units[p].result.csv_rows # <<>>

\* C11: a run that loaded no checkpoint, counted the source and in which every page
\* task succeeded with every batch writes exactly one row per distinct ArtifactKey
\* of the source and saves a checkpoint with current_page = total_pages and
\* processed keys equal to the key strings of the source.
C11_EndToEnd ==
    (/\ pc = "saved"
     /\ loaded.file.state = "missing"
     /\ total_pages = TotalPages(Len(source), PageSize)
     /\ AllUnitsClean
     /\ progress_file.state = "ok")
    => /\ Len(csv_file) = Cardinality(SourceKeys(source))
       /\ RowKeys(csv_file) = SourceKeys(source)
       /\ progress_file = SavedFile(total_pages, SourceKeys(source))

\* the values of a list in first-seen order, each once (exact match)
RECURSIVE DistinctInOrder(_)
DistinctInOrder(vals) ==
    IF vals = <<>> THEN <<>>
    ELSE LET before == DistinctInOrder(SubSeq(vals, 1, Len(vals) - 1))
             last == vals[Len(vals)]
         IN IF last \in Range(before) THEN before ELSE Append(before, last)

FieldValues(rows) == [i \in 1..Len(rows) |-> rows[i].field_value]

\* the distinct non-null texts of all rows of a batch that carry a study
AllTexts(batch, study) ==
    DistinctInOrder(FieldValues(SelectSeq(batch,
        LAMBDA r : r.study_id = study /\ r.field_value # NoneStr)))

\* the distinct non-empty texts of the rows of a batch that carry a study and whose
\* key is not in processed_file_keys
ContributedTexts(batch, study, keys) ==
    DistinctInOrder(FieldValues(SelectSeq(batch,
        LAMBDA r : /\ r.study_id = study
                   /\ KeyStr(FileKey(r)) \notin keys
                   /\ Truthy(r.field_value))))

\* report_value of an aggregate: None when it is empty, else the " | "-join
JoinOrNone(vals) == IF vals = <<>> THEN NoneStr ELSE JoinBar(vals)

\* C12 as stated: every emitted row's report_value is the " | "-join, in first-seen
\* order and without duplicates, of the non-null texts of all rows of the batch that
\* carry the row's study (None is read as the empty join).
C12_AllRowsOfParent ==
    f_pc \in {"first", "second"}
    => \A i \in 1..Len(f_rows) :
          LET joined == JoinBar(AllTexts(f_batch, f_rows[i].study_id))
          IN \/ f_rows[i].report_value = joined
             \/ f_rows[i].report_value = NoneStr /\ joined = ""

\* C12 amended: every emitted row's report_value is the " | "-join, in first-seen
\* order and without duplicates, of the non-null, non-empty texts of the rows of the
\* batch that carry the row's study and whose key is not in processed_keys, whichever
\* file carried each text (None when there is no such text); all rows emitted for
\* one study have the same report_value.
C12_ParentScopedAggregate ==
    f_pc \in {"first", "second"}
    => /\ \A i \in 1..Len(f_rows) :
             f_rows[i].report_value =
                 JoinOrNone(ContributedTexts(f_batch, f_rows[i].study_id, f_keys))
       /\ \A i, j \in 1..Len(f_rows) :
             f_rows[i].study_id = f_rows[j].study_id
             => f_rows[i].report_value = f_rows[j].report_value

\* C12 witness: two files of one study, each carrying a different text, are emitted
\* with the join of both texts.
C12_Witness ==
    /\ f_pc = "first"
    /\ \E m, n \in 1..Len(f_batch) :
          /\ f_batch[m].study_id = f_batch[n].study_id
          /\ f_batch[m].instance_id # f_batch[n].instance_id
          /\ f_batch[m].field_value = "a"
          /\ f_batch[n].field_value = "b"
    /\ \E i, j \in 1..Len(f_rows) :
          /\ i # j
          /\ f_rows[i].study_id = f_rows[j].study_id
          /\ f_rows[i].report_value = "a | b"
          /\ f_rows[j].report_value = "a | b"

\* C13: in a complete run (no checkpoint loaded, the source counted, every page task
\* and every batch succeeded) each merged row's report_value is the " | "-join of the
\* distinct texts of all source rows of its study, in first-seen order, however the
\* rows of the study fall into batches and pages.
C13_WholeParentReport ==
    (/\ pc = "csv_saved"
     /\ loaded.file.state = "missing"
     /\ total_pages = TotalPages(Len(source), PageSize)
     /\ AllUnitsClean)
    => \A i \in 1..Len(all_csv_rows) :
          all_csv_rows[i].report_value =
              JoinOrNone(AllTexts(source, all_csv_rows[i].study_id))

\* ceil(n / d): the least k with k * d >= n
CeilDiv(n, d) == CHOOSE k \in 0..n : k * d >= n /\ (k = 0 \/ (k - 1) * d < n)

\* C14: for every list and batch size n > 0 the concatenation of the batches of
\* create_batches is the list, every batch is non-empty and has at most n elements,
\* only the last one may have fewer than n, and the number of batches is
\* ceil(len / n), the value get_batch_count returns (0 for the empty list).
C14_PartitionCorrect ==
    /\ b_pc \in {"split", "counted"}
       => /\ Concat(b_batches) = b_data
          /\ \A i \in 1..Len(b_batches) :
                /\ Len(b_batches[i]) >= 1
                /\ Len(b_batches[i]) <= b_size
                /\ i < Len(b_batches) => Len(b_batches[i]) = b_size
          /\ Len(b_batches) = CeilDiv(Len(b_data), b_size)
    /\ b_pc = "counted"
       => /\ b_count = CeilDiv(Len(b_data), b_size)
          /\ b_count = Len(b_batches)
          /\ b_data = <<>> => b_count = 0

\* C14 witness: a list split into at least two batches, the last one short, and
\* counted.
C14_Witness ==
    /\ b_pc = "counted"
    /\ Len(b_batches) >= 2
    /\ Len(b_batches[Len(b_batches)]) < b_size
    /\ b_count = Len(b_batches)

C16_UnitFailureContained ==
    /\ \A p \in DOMAIN units : units[p].st # "RAISED"
    /\ run_result.error # "task"

\* the batches of page p
BatchesOf(p) == create_batches(fetch_page(source, p, PageSize), BatchSize)

\* what the batch n of page p gives when it does not raise
GoodBatch(p, n) == process_batch_task(BatchesOf(p)[n], dispatch_keys, OutputDir, {}, {})

\* C17: a page task in which some batches raised still returns success True, has gone
\* through every batch of the page, and its result holds the rows and the keys of
\* exactly the batches that did not raise, in batch order.
C17_BadBatchContained ==
    \A p \in DOMAIN units :
        (units[p].st = "SUCCEEDED" /\ units[p].bad # {})
        => LET batches == BatchesOf(p)
               good == [n \in 1..Len(batches) |->
                           IF n \in units[p].bad THEN BatchFailure ELSE GoodBatch(p, n)]
           IN /\ units[p].result.success
              /\ units[p].result.batches_processed = Len(batches)
              /\ units[p].result.csv_rows =
                    Concat([n \in 1..Len(batches) |-> good[n].csv_rows_data])
              /\ units[p].result.processed_file_keys =
                    UNION {Range(good[n].processed_file_keys) : n \in 1..Len(batches)}

\* C17 witness: the first batch of a page raised and the task returned the row of the
\* second batch.
C17_Witness ==
    \E p \in DOMAIN units :
        /\ units[p].st = "SUCCEEDED"
        /\ units[p].bad = {1}
        /\ Len(BatchesOf(p)) = 2
        /\ Len(units[p].result.csv_rows) = 1
        /\ units[p].result.processed_file_keys # {}

\* C18: a failed count query is never taken for a row count: once run has counted,
\* total_pages is the page count of the rows the query returns.
C18_CountFailurePropagates ==
    pc \in {"counted", "waiting", "merging", "csv_saved", "saved"}
    => total_pages = TotalPages(Len(source), PageSize)

\* C19: run never raises: when it has ended without being killed it has returned a
\* dictionary whose success is True exactly when no exception occurred, and that
\* carries the error otherwise.
C19_RunNeverRaises ==
    /\ ~run_result.raised
    /\ (pc = "done" /\ outcome # "crashed")
       => /\ run_result.returned
          /\ run_result.success = (outcome = "success")
          /\ outcome \in {"error", "timeout"} => run_result = ErrorResult(run_result.error)
          /\ outcome = "success" => run_result = SuccessResult

\* C19 witness: writing the output raised after the fan-in had merged rows, and run
\* returned success False.
C19_Witness ==
    /\ pc = "done"
    /\ all_csv_rows # <<>>
    /\ run_result = ErrorResult("csv")

\* C20: the checkpoint a run writes after its fan-in has current_page = total_pages
\* whatever the page tasks returned, and a run dispatches no page whose task failed
\* in the run that wrote the checkpoint on disk.
C20_UnconditionalAdvance ==
    /\ (pc = "saved" /\ progress_file.state = "ok" /\ progress_file # loaded.file)
       => progress_file.current_page = total_pages
    /\ pc \in {"waiting", "merging", "csv_saved"} => DOMAIN units \cap prev_failed = {}

\* C20 witness: the run after one whose page task failed has counted the unchanged
\* source and dispatched nothing.
C20_Witness ==
    /\ pc = "waiting"
    /\ prev_failed # {}
    /\ loaded.file.state = "ok"
    /\ total_pages = TotalPages(Len(source), PageSize)
    /\ start_page = total_pages
    /\ units = NoUnits

\* every page task of the group has ended in SUCCEEDED or FAILED_FINAL
AllSettled == \A p \in DOMAIN units : units[p].st \in {"SUCCEEDED", "FAILED_FINAL"}

\* C21: a page task is attempted again at most max_retries times, a task that is
\* SUCCEEDED or FAILED_FINAL stays as it is, and every dispatched task ends in one
\* of the two.
C21_UnitStateMachine ==
    /\ [](\A p \in DOMAIN units : units[p].retries <= MaxRetries)
    /\ [][\A p \in DOMAIN units \cap DOMAIN units' :
             units[p].st \in {"SUCCEEDED", "FAILED_FINAL"} => units'[p] = units[p]]_vars
    /\ []<>AllSettled

\* the rows of a batch whose key is not in a set of processed keys
NonSkipped(batch, keys) == SelectSeq(batch, LAMBDA r : KeyStr(FileKey(r)) \notin keys)

\* C22: the keys process_batch returns hold the string form of each key of a
\* non-skipped row of the batch exactly once, however many rows carry the key and
\* whether or not they have a text.
C22_NewKeysOnce ==
    f_pc \in {"first", "second"}
    => /\ Range(f_first.keys) = {KeyStr(FileKey(r)) : r \in Range(NonSkipped(f_batch, f_keys))}
       /\ \A i, j \in 1..Len(f_first.keys) : f_first.keys[i] = f_first.keys[j] => i = j

\* the greatest field_created_at of the rows of a batch with key k that are not
\* skipped, NoneTime when none of them has one
MaxCreatedAt(batch, keys, k) ==
    LET times == {r.field_created_at : r \in {x \in Range(NonSkipped(batch, keys)) : FileKey(x) = k}}
    IN CHOOSE t \in times \cup {NoneTime} : \A u \in times : u <= t

\* C23: after process_batch the field_created_at of each file is the greatest
\* field_created_at of all non-skipped rows of the batch with the file's key, rows
\* without text and rows repeating a text of the study included.
C23_CreatedAtIsMax ==
    f_pc \in {"first", "second"}
    => \A i \in 1..Len(f_first.file_data) :
          f_first.file_data[i].field_created_at =
              MaxCreatedAt(f_batch, f_keys, FileKey(f_first.file_data[i]))

\* the paths a page task has written: the files it downloaded (download_file writes
\* local_file_path) and the images it converted (convert writes jpg_path)
WrittenPaths(result) ==
    {result.csv_rows[i].local_file_path :
        i \in {n \in 1..Len(result.csv_rows) : result.csv_rows[n].downloaded}}
    \cup {result.csv_rows[i].jpg_path :
        i \in {n \in 1..Len(result.csv_rows) : result.csv_rows[n].jpg_path # NoneStr}}

\* C24: two page tasks of one group, which run concurrently, write no path in
\* common.
C24_DisjointWrites ==
    \A p, q \in DOMAIN units :
        (p # q /\ units[p].st = "SUCCEEDED" /\ units[q].st = "SUCCEEDED")
        => WrittenPaths(units[p].result) \cap WrittenPaths(units[q].result) = {}

\* C25: prepare_csv_rows builds exactly one row per file of file_data whose key is
\* not in processed_file_keys; local_file_path is set exactly for the rows with a
\* file_url and is then output_dir/dicom_files/<instance_id>.dcm; a row without
\* file_url is kept, and is never downloaded or converted.
C25_EmissionAndStagingPath ==
    f_pc \in {"first", "downloaded"}
    => /\ RowKeys(f_rows) = {KeyStr(f_first.file_data[i].key) : i \in 1..Len(f_first.file_data)} \ f_keys
       /\ NoDuplicateRows(f_rows)
       /\ \A i \in 1..Len(f_rows) :
             /\ f_rows[i].local_file_path # NoneStr <=> f_rows[i].file_url # NoneStr
             /\ f_rows[i].file_url # NoneStr
                => f_rows[i].local_file_path =
                      OutputDir \o "/dicom_files/" \o ToString(f_rows[i].instance_id) \o ".dcm"
             /\ f_rows[i].file_url = NoneStr
                => ~f_rows[i].downloaded /\ f_rows[i].jpg_path = NoneStr

\* C25 witness: after the downloads, a file without file_url has its row, with no
\* local path and not downloaded, next to a file with a file_url that was
\* downloaded to its path and converted.
C25_Witness ==
    /\ f_pc = "downloaded"
    /\ \E i, j \in 1..Len(f_rows) :
          /\ f_rows[i].file_url = NoneStr
          /\ f_rows[i].local_file_path = NoneStr
          /\ ~f_rows[i].downloaded
          /\ f_rows[j].file_url # NoneStr
          /\ f_rows[j].local_file_path = "out/dicom_files/101.dcm"
          /\ f_rows[j].downloaded
          /\ f_rows[j].jpg_path # NoneStr

\* the batches of page p that did not raise in its task
GoodBatches(p) == {n \in 1..Len(BatchesOf(p)) : n \notin units[p].bad}

\* the (batch, key) pairs of page p over the batches that did not raise and the keys
\* of their rows that are not in the dispatched key set
GoodBatchKeys(p) ==
    UNION {{<<n, k>> : k \in SourceKeys(BatchesOf(p)[n]) \ dispatch_keys} : n \in GoodBatches(p)}

\* C26: a page task some of whose batches raised reports success True; its counters
\* records_processed, total_files and total_csv_rows count the batches that did not
\* raise only, and its rows and keys come from those batches only.
C26_PartialPageSuccess ==
    \A p \in DOMAIN units :
        (units[p].st = "SUCCEEDED" /\ units[p].bad # {})
        => LET res == units[p].result
               batches == BatchesOf(p)
           IN /\ res.success
              /\ res.records_processed =
                    Len(fetch_page(source, p, PageSize))
                    - Cardinality(UNION {{<<n, i>> : i \in 1..Len(batches[n])} : n \in units[p].bad})
              /\ res.total_files = Cardinality(GoodBatchKeys(p))
              /\ res.total_csv_rows = Cardinality(GoodBatchKeys(p))
              /\ Len(res.csv_rows) = res.total_csv_rows
              /\ RowKeys(res.csv_rows) = {kk[2] : kk \in GoodBatchKeys(p)}
              /\ res.processed_file_keys = {kk[2] : kk \in GoodBatchKeys(p)}

\* C26 witness: every batch of a page of two batches raised, and the page task
\* returned success True with no record counted, no row and no key.
C26_Witness ==
    \E p \in DOMAIN units :
        /\ units[p].st = "SUCCEEDED"
        /\ Len(BatchesOf(p)) = 2
        /\ units[p].bad = {1, 2}
        /\ units[p].result.success
        /\ units[p].result.records_processed = 0
        /\ units[p].result.csv_rows = <<>>
        /\ units[p].result.processed_file_keys = {}

\* C27: when a run has saved its rows, the output file holds exactly the rows the run
\* merged if it merged any, whatever earlier runs had written, and is the file the
\* run found if it merged none.
C27_OutputIsLatestMerge ==
    pc = "csv_saved"
    => csv_file = IF all_csv_rows # <<>> THEN all_csv_rows ELSE loaded.csv

\* C27 witness: a later run found rows in the file, merged rows of its own and
\* saved them, and a row of the earlier run is no longer in the file.
C27_Witness ==
    /\ pc = "csv_saved"
    /\ runs > 1
    /\ all_csv_rows # <<>>
    /\ csv_file = all_csv_rows
    /\ \E i \in 1..Len(loaded.csv) : loaded.csv[i] \notin Range(csv_file)

\* the texts of the rows of a batch that carry a study and are not skipped
NonSkippedTexts(batch, keys, study) ==
    {r.field_value : r \in {x \in Range(NonSkipped(batch, keys)) :
                                x.study_id = study /\ Truthy(x.field_value)}}

\* the sequences without repeats over a set of texts
Arrangements(texts) ==
    {seq \in UNION {[1..n -> texts] : n \in 0..Cardinality(texts)} :
        \A i, j \in 1..Len(seq) : seq[i] = seq[j] => i = j}

\* C28: a row whose key is in processed_file_keys adds no text: every text in a
\* study's aggregate is carried by a row of the study that was not skipped, and the
\* report_value of an emitted row joins texts of such rows only.
C28_SkippedRowAddsNoText ==
    f_pc \in {"first", "second"}
    => /\ \A s \in 1..Len(f_first.report) : \A j \in 1..Len(f_first.report[s].fields) :
             f_first.report[s].fields[j].value
                \in NonSkippedTexts(f_batch, f_keys, f_first.report[s].study)
       /\ \A i \in 1..Len(f_rows) :
             f_rows[i].report_value
                \in {JoinOrNone(seq) :
                        seq \in Arrangements(NonSkippedTexts(f_batch, f_keys, f_rows[i].study_id))}

\* C28 witness: a skipped row of an already processed file carries the text "b", a
\* row of a new file of the same study carries "a", and the new file is emitted
\* with "a" alone.
C28_Witness ==
    /\ f_pc = "first"
    /\ \E m, n \in 1..Len(f_batch) :
          /\ f_batch[m].study_id = f_batch[n].study_id
          /\ KeyStr(FileKey(f_batch[m])) \in f_keys
          /\ f_batch[m].field_value = "b"
          /\ KeyStr(FileKey(f_batch[n])) \notin f_keys
          /\ f_batch[n].field_value = "a"
          /\ \E i \in 1..Len(f_rows) :
                /\ f_rows[i].study_id = f_batch[n].study_id
                /\ f_rows[i].report_value = "a"

\* C29: a run whose uploads were made and returned, successfully or not, returns
\* success True, whatever its page tasks returned and whether or not its checkpoint
\* was saved; the result of a successful run has no per-page count and no error text.
C29_SuccessIgnoresPartialFailures ==
    pc = "done"
    => /\ uploaded # "none" => (run_result.returned /\ run_result.success)
       /\ run_result.success
          => /\ run_result.error = ""
             /\ run_result.keys \cap {"successful_pages", "failed_pages", "error", "errors"} = {}

\* C29 witness: the only page task of the run returned its failure result, the
\* checkpoint write failed and an upload returned False, and run returned success
\* True.
C29_Witness ==
    /\ pc = "done"
    /\ DOMAIN units # {}
    /\ \A p \in DOMAIN units : units[p].st = "FAILED_FINAL"
    /\ progress_file = CorruptFile
    /\ uploaded = "failed"
    /\ run_result.returned
    /\ run_result.success

\* C30: a run that loaded a checkpoint whose current_page is not below total_pages
\* dispatches no page task, fetches no page, merges no row, leaves the CSV file as it
\* found it, keeps the loaded keys, and the checkpoint it saves holds the loaded keys.
C30_CompletedRerunIsNoOp ==
    (/\ pc \in {"waiting", "merging", "csv_saved", "saved", "done"}
     /\ loaded.file.state = "ok"
     /\ start_page >= total_pages)
    => /\ DOMAIN units = {}
       /\ fetched = {}
       /\ all_csv_rows = <<>>
       /\ csv_file = loaded.csv
       /\ processed_file_keys = loaded.file.keys
       /\ progress_file.state = "ok" => progress_file.keys = loaded.file.keys

\* C30 witness: a later run over a source of at least one page loaded a checkpoint
\* with keys and a current_page at the end, and has saved its checkpoint with the
\* CSV file of the earlier run still in place.
C30_Witness ==
    /\ pc = "saved"
    /\ runs > 1
    /\ total_pages > 0
    /\ loaded.file.state = "ok"
    /\ loaded.file.keys # {}
    /\ start_page >= total_pages
    /\ DOMAIN units = {}
    /\ csv_file # <<>>
    /\ progress_file = SavedFile(total_pages, loaded.file.keys)
====
